---- MODULE Spec2Model ----
(***************************************************************************)
(* MediTrust: the MedicineRegistry ledger contract (batch registration,    *)
(* supply-chain verification, customer reward claim, state-channel         *)
(* settlement) together with the MediToken minting it calls.               *)
(*                                                                         *)
(* Every transaction is one atomic step: it commits all of its writes or   *)
(* reverts to the state before it (EVM semantics).  Token amounts are      *)
(* counted in whole MEDI (1 unit = 10^18 base units = "1 ether").          *)
(***************************************************************************)
EXTENDS Integers, Sequences, FiniteSets, TLC

VARIABLES
    now,                    \* block.timestamp
    batches,                \* mapping(string => MedicineBatch)
    batchParticipantsList,  \* mapping(string => address[])
    batchParticipants,      \* mapping(string => mapping(address => SupplyChainParticipant))
    channels,               \* mapping(bytes32 => StateChannel)
    minters,                \* MediToken.minters
    totalSupply,            \* MediToken total supply
    balanceOf,              \* MediToken balances
    mintLog,                \* history: the mint calls made by the registry, in order
    dateNow,                \* backend: Date.now(), in milliseconds
    managerChannels,        \* backend: StateChannelManager.channels
    requests,               \* backend: the registration handlers and where each one stands
    settlers,               \* backend: the settlements started outside an append, in flight
    acks,                   \* history: the registrations answered with success
    nextIntent              \* history: the number of registration requests received

ledgerVars == <<now, batches, batchParticipantsList, batchParticipants, channels,
                minters, totalSupply, balanceOf, mintLog>>

backendVars == <<dateNow, managerChannels, requests, settlers, acks, nextIntent>>

vars == <<now, batches, batchParticipantsList, batchParticipants, channels,
          minters, totalSupply, balanceOf, mintLog,
          dateNow, managerChannels, requests, settlers, acks, nextIntent>>

-----------------------------------------------------------------------------
(* Bounds of the model *)

MaxTime == 2            \* block.timestamp ranges over 1..MaxTime
MaxClock == 2           \* Date.now() ranges over 1..MaxClock
MaxHandlers == 2        \* registration handlers in progress at the same time
MaxIntents == 3         \* registration requests received, with two chains
MaxBuffered == 11       \* registration requests received, with one chain
MaxBatchData == 2       \* longest BatchData list submitted to settleChannel

(* Program constants *)

CUSTOMER_REWARD == 1
MAX_SUPPLY == 1000000
INITIAL_SUPPLY == 100000
MAX_PARTICIPANTS == 20

-----------------------------------------------------------------------------
(* Identities *)

ZERO == "0x0"                   \* address(0)
Deployer == "Deployer"          \* deploys both contracts: admin, manufacturer, channel role, token owner
Registry == "Registry"          \* address of the MedicineRegistry contract
P1 == "P1"
P2 == "P2"
C1 == "C1"
C2 == "C2"
Junk == "0xJunk"                \* what ecrecover yields for a signature over another message

BulkPool ==
    <<"P1", "P2", "A03", "A04", "A05", "A06", "A07", "A08", "A09", "A10", "A11",
      "A12", "A13", "A14", "A15", "A16", "A17", "A18", "A19", "A20", "A21", "A22">>

\* a list of MAX_PARTICIPANTS + 1 distinct identities
BulkParticipants == SubSeq(BulkPool, 1, MAX_PARTICIPANTS + 1)

Accounts == {Deployer, P1, P2, C1, C2}

BatchIds == {"B1", "B2"}
ChannelIds == {"ch1"}
DirectChannel == "direct"       \* the channel id callers pass for a direct registration
Metadata == {"Aspirin", "Ibuprofen"}
Locations == {"Mumbai"}
Notes == {"25C"}

(* enum SupplyChainRole *)
NONE == "NONE"
TRANSPORTER == "TRANSPORTER"
SUPPLIER == "SUPPLIER"
DISTRIBUTOR == "DISTRIBUTOR"
WHOLESALER == "WHOLESALER"
RETAILER == "RETAILER"
SupplyChainRole == <<NONE, TRANSPORTER, SUPPLIER, DISTRIBUTOR, WHOLESALER, RETAILER>>

MANUFACTURER_ROLE == "MANUFACTURER_ROLE"
CHANNEL_ROLE == "CHANNEL_ROLE"

everyoneHasRole(role, account) == TRUE

\* AccessControl membership as granted by the constructor
hasRole(role, account) == account = Deployer

-----------------------------------------------------------------------------
(* Outcomes of a transaction: OK or the revert reason *)

OK == "ok"
DuplicateBatch == "Batch already exists"
ExpiredDate == "Expiry date must be in future"
RoleCountMismatch == "Participants and roles mismatch"
EmptyParticipants == "At least one participant required"
InvalidParticipant == "Invalid participant address"
DuplicateParticipant == "Duplicate participant"
TooManyParticipants == "Too many participants"
ChannelNotOpen == "Channel not open"
InvalidSigner == "Invalid signer"
SignerNotManufacturer == "Signer not a manufacturer"
BatchNotFound == "Batch not found"
NotAuthorizedParticipant == "Not authorized participant"
BatchCompleted == "Batch already completed"
InvalidSignature == "Invalid signature"
AlreadyVerified == "Already verified"
AlreadyClaimed == "Reward already claimed"
VerificationIncomplete == "Supply chain verification incomplete"
ParticipantCannotClaim == "Supply chain participants cannot claim rewards"
Expired == "Medicine expired"
NotAMinter == "Not a minter"
MaxSupplyExceeded == "Max supply exceeded"
Unauthorized == "AccessControlUnauthorizedAccount"
ChannelAlreadyOpen == "Channel already open"
NotOwner == "OwnableUnauthorizedAccount"

-----------------------------------------------------------------------------
(* Storage defaults: what an unwritten mapping slot reads as *)

NoParticipant ==
    [participantAddress |-> ZERO, role |-> NONE, hasVerified |-> FALSE,
     verifiedAt |-> 0, location |-> "", additionalData |-> ""]

NoBatch ==
    [manufacturer |-> ZERO, batchId |-> "", drugName |-> "", ingredients |-> "",
     expiryDate |-> 0, registeredAt |-> 0, channelId |-> "",
     supplyChainParticipants |-> <<>>, isParticipant |-> {},
     totalParticipants |-> 0, verifiedCount |-> 0,
     rewardClaimed |-> FALSE, rewardClaimedBy |-> ZERO, rewardClaimedAt |-> 0,
     exists |-> FALSE]

NoChannel ==
    [id |-> "", participants |-> <<>>, nonce |-> 0, isOpen |-> FALSE,
     openedAt |-> 0, closedAt |-> 0]

\* the registry's batch storage, handed to and returned by the functions below
Reg == [batches |-> batches, list |-> batchParticipantsList, parts |-> batchParticipants]

\* batchParticipants[_batchId][_participant]: a slot never written reads as the default
ParticipantSlot(parts, id, a) ==
    IF a \in DOMAIN parts[id] THEN parts[id][a] ELSE NoParticipant

Range(s) == {s[i] : i \in 1..Len(s)}

-----------------------------------------------------------------------------
(* registerBatchWithSupplyChain *)

NeverListed(R, _batchId, a) == FALSE

\* newBatch.isParticipant[_participants[i]]
AlreadyListed(R, _batchId, a) == a \in R.batches[_batchId].isParticipant

NewParticipantSwapped(a, role) ==
    [NoParticipant EXCEPT !.participantAddress = a,
                          !.role = IF role = TRANSPORTER THEN SUPPLIER ELSE TRANSPORTER,
                          !.hasVerified = FALSE,
                          !.verifiedAt = 0]

\* the memory record built at lines 189-193
NewParticipant(a, role) ==
    [NoParticipant EXCEPT !.participantAddress = a,
                          !.role = role,
                          !.hasVerified = FALSE,
                          !.verifiedAt = 0]

\* the loop of lines 185-198, from index i on; stops at the first failing require
RECURSIVE AddParticipants(_, _, _, _, _)
AddParticipants(R, _batchId, _participants, _roles, i) ==
    IF i > Len(_participants) THEN [err |-> OK, reg |-> R]
    ELSE IF _participants[i] = ZERO THEN [err |-> InvalidParticipant, reg |-> R]
    ELSE IF AlreadyListed(R, _batchId, _participants[i])
         THEN [err |-> DuplicateParticipant, reg |-> R]
    ELSE
        LET participant == NewParticipant(_participants[i], _roles[i])
            R2 == [R EXCEPT
                     !.batches[_batchId].supplyChainParticipants = Append(@, participant),
                     !.batches[_batchId].isParticipant = @ \cup {_participants[i]},
                     !.parts[_batchId] =
                         [a \in DOMAIN @ \cup {_participants[i]} |->
                             IF a = _participants[i] THEN participant ELSE @[a]]]
        IN AddParticipants(R2, _batchId, _participants, _roles, i + 1)

NoExistsCheck(R, _batchId) == TRUE

ExpiryNotPast(_expiryDate, t) == _expiryDate >= t

\* _expiryDate > block.timestamp
ExpiryInFuture(_expiryDate, t) == _expiryDate > t

NotYetRegistered(R, _batchId) == ~R.batches[_batchId].exists

registerBatchWithSupplyChain(R, sender, t, _batchId, _drugName, _ingredients, _expiryDate, _participants, _roles, _channelId) ==
    IF ~NotYetRegistered(R, _batchId) THEN [err |-> DuplicateBatch, reg |-> R]
    ELSE IF ~ExpiryInFuture(_expiryDate, t) THEN [err |-> ExpiredDate, reg |-> R]
    ELSE IF Len(_participants) # Len(_roles) THEN [err |-> RoleCountMismatch, reg |-> R]
    ELSE IF ~(Len(_participants) > 0) THEN [err |-> EmptyParticipants, reg |-> R]
    ELSE
        LET R1 == [R EXCEPT
                     !.batches[_batchId] =
                         [@ EXCEPT !.manufacturer = sender,
                                   !.batchId = _batchId,
                                   !.drugName = _drugName,
                                   !.ingredients = _ingredients,
                                   !.expiryDate = _expiryDate,
                                   !.registeredAt = t,
                                   !.channelId = _channelId,
                                   !.totalParticipants = Len(_participants),
                                   !.verifiedCount = 0,
                                   !.rewardClaimed = FALSE,
                                   !.exists = TRUE],
                     !.list[_batchId] = _participants]
        IN AddParticipants(R1, _batchId, _participants, _roles, 1)

-----------------------------------------------------------------------------
(* Signatures.  A signature is the pair of its signer and the digest it was  *)
(* made over; recovering it against another digest yields an unrelated       *)
(* address.                                                                  *)

toEthSignedMessageHash(h) == <<"\\x19Ethereum Signed Message:\\n32", h>>

Sign(signer, h) == [signer |-> signer, digest |-> toEthSignedMessageHash(h)]

recoverAnyDigest(ethSignedHash, _signature) == _signature.signer

recover(ethSignedHash, _signature) ==
    IF _signature.digest = ethSignedHash THEN _signature.signer ELSE Junk

\* the bytes of a string, in the pieces the strings used here are made of
Bytes(str) ==
    CASE str = "B1" -> <<"B", "1">>
      [] str = "B2" -> <<"B", "2">>
      [] str = "Mumbai2" -> <<"Mumbai", "2">>
      [] str = "25C" -> <<"2", "5C">>
      [] OTHER -> <<str>>

\* abi.encodePacked(string, address, string, string): the strings' bytes and the
\* address's 20-byte word are concatenated with no length or separator
encodePacked(_batchId, sender, _location, _additionalData) ==
    Bytes(_batchId) \o <<sender>> \o Bytes(_location) \o Bytes(_additionalData)

\* keccak256(abi.encodePacked(_batchId, msg.sender, _location, _additionalData))
VerificationHash(_batchId, sender, _location, _additionalData) ==
    <<"keccak256", encodePacked(_batchId, sender, _location, _additionalData)>>

\* keccak256(_finalState)
StateHash(_finalState) == <<"keccak256", _finalState>>

-----------------------------------------------------------------------------
(* isChannelParticipant *)

isChannelParticipant(chans, _channelId, _participant) ==
    \E i \in 1..Len(chans[_channelId].participants) :
        chans[_channelId].participants[i] = _participant

-----------------------------------------------------------------------------
(* verifySupplyChainTransfer *)

FirstSlot(batch, a) == 1

\* index of the first participant record with the given address (0 if none)
FindParticipant(batch, a) ==
    IF \E i \in 1..Len(batch.supplyChainParticipants) :
           batch.supplyChainParticipants[i].participantAddress = a
    THEN CHOOSE i \in 1..Len(batch.supplyChainParticipants) :
           /\ batch.supplyChainParticipants[i].participantAddress = a
           /\ \A j \in 1..(i - 1) : batch.supplyChainParticipants[j].participantAddress # a
    ELSE 0

NoVerifiedCheck(p) == TRUE

NotYetVerified(p) == ~p.hasVerified

AnyoneListed(batch, sender) == TRUE

\* batch.isParticipant[msg.sender]
IsListed(batch, sender) == sender \in batch.isParticipant

NoCompletedCheck(batch) == TRUE

\* !batch.rewardClaimed
NotCompleted(batch) == ~batch.rewardClaimed

MarkVerifiedOnly(p, t, _location, _additionalData) == [p EXCEPT !.hasVerified = TRUE]

\* the four assignments of lines 281-284 and 289-292
MarkVerified(p, t, _location, _additionalData) ==
    [p EXCEPT !.hasVerified = TRUE,
              !.verifiedAt = t,
              !.location = _location,
              !.additionalData = _additionalData]

KeepCount(n) == n

\* batch.verifiedCount++
CountVerification(n) == n + 1

verifySupplyChainTransfer(R, sender, t, _batchId, _location, _additionalData, _signature) ==
    LET batch == R.batches[_batchId]
        messageHash == VerificationHash(_batchId, sender, _location, _additionalData)
        ethSignedHash == toEthSignedMessageHash(messageHash)
        i == FindParticipant(batch, sender)
    IN  IF ~batch.exists THEN [err |-> BatchNotFound, reg |-> R]
        ELSE IF ~IsListed(batch, sender)
             THEN [err |-> NotAuthorizedParticipant, reg |-> R]
        ELSE IF ~NotCompleted(batch) THEN [err |-> BatchCompleted, reg |-> R]
        ELSE IF recover(ethSignedHash, _signature) # sender
             THEN [err |-> InvalidSignature, reg |-> R]
        ELSE IF i = 0 THEN [err |-> OK, reg |-> R]
        ELSE IF ~NotYetVerified(batch.supplyChainParticipants[i])
             THEN [err |-> AlreadyVerified, reg |-> R]
        ELSE [err |-> OK,
              reg |-> [R EXCEPT
                  !.batches[_batchId].supplyChainParticipants[i] =
                      MarkVerified(@, t, _location, _additionalData),
                  !.batches[_batchId].verifiedCount = CountVerification(@),
                  !.parts[_batchId] =
                      [a \in DOMAIN @ \cup {sender} |->
                          IF a = sender
                          THEN MarkVerified(ParticipantSlot(R.parts, _batchId, a),
                                            t, _location, _additionalData)
                          ELSE @[a]]]]

-----------------------------------------------------------------------------
(* MediToken.mint, called by the registry *)

mintToCaller(tok, sender, to, amount) ==
    IF sender \notin tok.minters THEN [err |-> NotAMinter, tok |-> tok]
    ELSE IF ~(tok.totalSupply + amount <= MAX_SUPPLY)
         THEN [err |-> MaxSupplyExceeded, tok |-> tok]
    ELSE [err |-> OK,
          tok |-> [tok EXCEPT !.totalSupply = @ + amount,
                              !.balanceOf[sender] = @ + amount]]

mint(tok, sender, to, amount) ==
    IF sender \notin tok.minters THEN [err |-> NotAMinter, tok |-> tok]
    ELSE IF ~(tok.totalSupply + amount <= MAX_SUPPLY)
         THEN [err |-> MaxSupplyExceeded, tok |-> tok]
    ELSE [err |-> OK,
          tok |-> [tok EXCEPT !.totalSupply = @ + amount,
                              !.balanceOf[to] = @ + amount]]

Tok == [minters |-> minters, totalSupply |-> totalSupply, balanceOf |-> balanceOf]

-----------------------------------------------------------------------------
(* claimCustomerReward *)

NoClaimedCheck(batch) == TRUE

NotYetClaimed(batch) == ~batch.rewardClaimed

AnyProgress(batch) == TRUE

FullyVerified(batch) == batch.verifiedCount = batch.totalParticipants

\* the requires of lines 312-315, in order; OK when all pass
ClaimGuard(batch, sender) ==
    IF ~batch.exists THEN BatchNotFound
    ELSE IF ~NotYetClaimed(batch) THEN AlreadyClaimed
    ELSE IF ~FullyVerified(batch) THEN VerificationIncomplete
    ELSE IF sender \in batch.isParticipant THEN ParticipantCannotClaim
    ELSE OK

IgnoreMintFailure(m) == OK

\* a revert of the call of line 323 reverts the caller
MintOutcome(m) == m.err

StorageBeforeWrites(R, R1) == R

\* the storage the token's mint is called on: lines 318-320 are executed before
\* the call of line 323
StorageAtMint(R, R1) == R1

\* result: the registry storage, the token state, the mint calls made and the
\* storage at the moment mint is called
claimCustomerReward(R, tok, sender, t, _batchId) ==
    LET batch == R.batches[_batchId]
        guard == ClaimGuard(batch, sender)
        R1 == [R EXCEPT !.batches[_batchId].rewardClaimed = TRUE,
                        !.batches[_batchId].rewardClaimedBy = sender,
                        !.batches[_batchId].rewardClaimedAt = t]
        m == mint(tok, Registry, sender, CUSTOMER_REWARD)
    IN  IF guard # OK
        THEN [err |-> guard, reg |-> R, tok |-> tok, minted |-> <<>>, atMint |-> R]
        ELSE IF MintOutcome(m) # OK
        THEN [err |-> m.err, reg |-> R1, tok |-> tok, minted |-> <<>>,
              atMint |-> StorageAtMint(R, R1)]
        ELSE [err |-> OK, reg |-> R1, tok |-> m.tok,
              minted |-> <<[batchId |-> _batchId, to |-> sender, amount |-> CUSTOMER_REWARD]>>,
              atMint |-> StorageAtMint(R, R1)]

ReadyWhenExists(R, _batchId) == R.batches[_batchId].exists

isBatchReadyForCustomer(R, _batchId) ==
    LET batch == R.batches[_batchId]
    IN batch.exists /\ ~batch.rewardClaimed /\ batch.verifiedCount = batch.totalParticipants

-----------------------------------------------------------------------------
(* settleChannel *)

NeverOnChain(R, data) == FALSE

\* the test of line 234, negated: the entry's id is already registered
AlreadyOnChain(R, data) == R.batches[data.batchId].exists

\* the loop of lines 231-247, from index i on
RECURSIVE SettleBatches(_, _, _, _, _, _)
SettleBatches(R, sender, t, _channelId, batchDataArray, i) ==
    IF i > Len(batchDataArray) THEN [err |-> OK, reg |-> R]
    ELSE
        LET data == batchDataArray[i]
        IN  IF ~AlreadyOnChain(R, data)
            THEN LET r == registerBatchWithSupplyChain(R, sender, t, data.batchId,
                              data.drugName, data.ingredients, data.expiryDate,
                              data.supplyChainAddresses, data.supplyChainRoles, _channelId)
                 IN IF r.err # OK THEN r
                    ELSE SettleBatches(r.reg, sender, t, _channelId, batchDataArray, i + 1)
            ELSE SettleBatches(R, sender, t, _channelId, batchDataArray, i + 1)

settleChannel(R, chans, sender, t, _channelId, _finalState, _signature) ==
    LET channel == chans[_channelId]
        stateHash == StateHash(_finalState)
        ethSignedHash == toEthSignedMessageHash(stateHash)
        signer == recover(ethSignedHash, _signature)
        r == SettleBatches(R, sender, t, _channelId, _finalState, 1)
    IN  IF ~channel.isOpen THEN [err |-> ChannelNotOpen, reg |-> R, chans |-> chans]
        ELSE IF ~isChannelParticipant(chans, _channelId, signer)
             THEN [err |-> InvalidSigner, reg |-> R, chans |-> chans]
        ELSE IF ~hasRole(MANUFACTURER_ROLE, signer)
             THEN [err |-> SignerNotManufacturer, reg |-> R, chans |-> chans]
        ELSE IF r.err # OK THEN [err |-> r.err, reg |-> r.reg, chans |-> chans]
        ELSE [err |-> OK, reg |-> r.reg,
              chans |-> [chans EXCEPT ![_channelId].isOpen = FALSE,
                                      ![_channelId].closedAt = t,
                                      ![_channelId].nonce = @ + 1]]

-----------------------------------------------------------------------------
(* openChannel, closeChannel *)

openChannel(chans, sender, t, _channelId, _participants) ==
    IF ~hasRole(CHANNEL_ROLE, sender) THEN [err |-> Unauthorized, chans |-> chans]
    ELSE IF chans[_channelId].isOpen THEN [err |-> ChannelAlreadyOpen, chans |-> chans]
    ELSE [err |-> OK,
          chans |-> [chans EXCEPT ![_channelId] =
                        [id |-> _channelId, participants |-> _participants, nonce |-> 0,
                         isOpen |-> TRUE, openedAt |-> t, closedAt |-> 0]]]

closeChannel(chans, sender, t, _channelId) ==
    IF ~hasRole(CHANNEL_ROLE, sender) THEN [err |-> Unauthorized, chans |-> chans]
    ELSE IF ~chans[_channelId].isOpen THEN [err |-> ChannelNotOpen, chans |-> chans]
    ELSE [err |-> OK,
          chans |-> [chans EXCEPT ![_channelId].isOpen = FALSE,
                                  ![_channelId].closedAt = t]]

-----------------------------------------------------------------------------
(* A transaction commits its writes only if it succeeds; a revert restores   *)
(* the storage it started from.                                              *)

KeepWrites(res) == res.reg

TxReg(res) == IF res.err = OK THEN res.reg ELSE Reg

TxChannels(res) == IF res.err = OK THEN res.chans ELSE channels

CommitReg(res) ==
    /\ batches' = TxReg(res).batches
    /\ batchParticipantsList' = TxReg(res).list
    /\ batchParticipants' = TxReg(res).parts

-----------------------------------------------------------------------------
(* The inputs transactions are issued with *)

\* already past at deployment, reached after one tick, never reached
ExpiryInputs == {1, 2, MaxTime + 1}

SeqsUpTo(S, n) == UNION {[1..k -> S] : k \in 0..n}

ParticipantInputs ==
    {<<>>, <<P1>>, <<P1, P2>>, <<P1, P1>>, <<ZERO>>, <<P1, ZERO>>, BulkParticipants}

\* n roles, cycling through the enum's members after NONE
RolesFrom(n) == [i \in 1..n |-> SupplyChainRole[((i - 1) % 5) + 2]]

RoleInputs(_participants) ==
    {RolesFrom(Len(_participants)), RolesFrom(Len(_participants) + 1)}

RegisterSenders == {Deployer}
VerifyCallers == {P1, P2, C1}
ClaimCallers == {P1, C1, C2}

SignatureInputs(sender, _location, _additionalData) ==
    {Sign(signer, VerificationHash(signedId, sender, _location, _additionalData)) :
        signer \in {sender, Deployer}, signedId \in BatchIds}

-----------------------------------------------------------------------------
(* The backend's StateChannelManager.  A channel id is the hash of the        *)
(* millisecond it was created in; the model uses the millisecond itself.      *)

\* batches a channel buffers before it settles by itself
SETTLE_THRESHOLD == 10

\* the chains with a registry address configured
ChainKeys == {"localhost", "polygon"}

\* the chains whose registry contract object was built at start-up; for polygon
\* the construction threw and was only logged
RegistryContracts == {"localhost"}

ManagerChannelIds == 1..MaxClock

\* channels.get(id) of an id never set
NoManagerChannel == [chainKey |-> "", status |-> "none", batches |-> <<>>, nonce |-> 0]

Handlers == 1..MaxHandlers

IdleRequest == [pc |-> "idle", intent |-> 0, channelId |-> 0]

\* a settlement in flight whose channel object is no longer in the map
Detached == 0 - 1

\* the role names the backend knows, with the numbers of the contract's enum
SupplyChainRoles ==
    [NONE |-> 0, TRANSPORTER |-> 1, SUPPLIER |-> 2, DISTRIBUTOR |-> 3,
     WHOLESALER |-> 4, RETAILER |-> 5]

\* SupplyChainRoles[p.role] || 0
participantRole(role) ==
    IF role \in DOMAIN SupplyChainRoles THEN SupplyChainRoles[role] ELSE 0

\* the batch id the n-th request carries
BatchIdOf(n) == IF n % 2 = 1 THEN "B1" ELSE "B2"

\* the object handed to addBatchToChannel for the n-th request, with one
\* participant; request and chainKey are not part of the object, they record
\* which request it came from
registrationData(n, chainKey, role) ==
    [request |-> n, chainKey |-> chainKey, batchId |-> BatchIdOf(n),
     roles |-> <<participantRole(role)>>]

\* the two ways a settlement is started outside an append
SettlerKinds == {"request", "message"}

\* channels.set replaces whatever the id held
createChannel(chs, ms, chainKey) ==
    [chs EXCEPT ![ms] = [chainKey |-> chainKey, status |-> "open",
                         batches |-> <<>>, nonce |-> 0]]

\* the loop of the registration handler: the first open channel of the chain,
\* in the order of insertion, which is the order of the ids; 0 when there is none
FirstOpenChannel(chs, chainKey) ==
    LET open == {id \in ManagerChannelIds :
                    chs[id].chainKey = chainKey /\ chs[id].status = "open"}
    IN  IF open = {} THEN 0 ELSE CHOOSE id \in open : \A other \in open : id <= other

NeverReached(n) == FALSE

ReachedThreshold(n) == n >= SETTLE_THRESHOLD

\* closeAndSettleChannel up to its first await: the status is set before
\* anything else; without a registry contract it fails at once
\* result: the channels, whether the call is suspended in signMessage, and
\* whether it threw
closeAndSettleChannel(chs, channelId) ==
    LET settling == [chs EXCEPT ![channelId].status = "settling"]
    IN  IF chs[channelId].chainKey \notin RegistryContracts
        THEN [chans |-> [settling EXCEPT ![channelId].status = "failed"],
              suspended |-> FALSE, threw |-> TRUE]
        ELSE [chans |-> settling, suspended |-> TRUE, threw |-> FALSE]

\* closeAndSettleChannel after signMessage: the registry object is built from
\* REGISTRY_ABI, which declares no settleChannel, so the call throws and the
\* catch block marks the channel failed
settlementForgotten(chs, channelId) == chs

\* the status is written to the object read before the await, which a later
\* createChannel may have replaced in the map
settlementResumed(chs, channelId) ==
    IF channelId = Detached THEN chs ELSE [chs EXCEPT ![channelId].status = "failed"]

\* addBatchToChannel up to its first await
\* result: the channels, whether the call is suspended in a settlement, and
\* whether it threw
addBatchToChannel(chs, channelId, batchData) ==
    LET pushed == [chs EXCEPT ![channelId].batches = Append(@, batchData),
                              ![channelId].nonce = @ + 1]
    IN  IF ReachedThreshold(Len(pushed[channelId].batches))
        THEN closeAndSettleChannel(pushed, channelId)
        ELSE [chans |-> pushed, suspended |-> FALSE, threw |-> FALSE]

\* closeAndSettleChannel of multichain-backend-production.js: no await and no
\* call of the registry; the channel is marked settled
closeAndSettleChannelProduction(chs, channelId) ==
    LET settling == [chs EXCEPT ![channelId].status = "settling"]
    IN  IF chs[channelId].chainKey \notin RegistryContracts
        THEN [chans |-> [settling EXCEPT ![channelId].status = "failed"],
              suspended |-> FALSE, threw |-> TRUE]
        ELSE [chans |-> [settling EXCEPT ![channelId].status = "settled"],
              suspended |-> FALSE, threw |-> FALSE]

\* addBatchToChannel of multichain-backend-production.js
addBatchToChannelProduction(chs, channelId, batchData) ==
    LET pushed == [chs EXCEPT ![channelId].batches = Append(@, batchData),
                              ![channelId].nonce = @ + 1]
    IN  IF ReachedThreshold(Len(pushed[channelId].batches))
        THEN closeAndSettleChannelProduction(pushed, channelId)
        ELSE [chans |-> pushed, suspended |-> FALSE, threw |-> FALSE]

\* the two backends of the repository
Backends == {"part_000", "production"}

addBatchToChannelOf(backend, chs, channelId, batchData) ==
    IF backend = "production" THEN addBatchToChannelProduction(chs, channelId, batchData)
    ELSE addBatchToChannel(chs, channelId, batchData)

-----------------------------------------------------------------------------
(* Transactions.  A reverted transaction leaves every variable as it was.    *)

\* the manager starts without channels, and no request is in progress
InitBackend ==
    /\ dateNow = 1
    /\ managerChannels = [id \in ManagerChannelIds |-> NoManagerChannel]
    /\ requests = [h \in Handlers |-> IdleRequest]
    /\ settlers = [k \in SettlerKinds |-> 0]
    /\ acks = {}
    /\ nextIntent = 1

Init ==
    /\ now = 1
    /\ batches = [b \in BatchIds |-> NoBatch]
    /\ batchParticipantsList = [b \in BatchIds |-> <<>>]
    /\ batchParticipants = [b \in BatchIds |-> <<>>]
    /\ channels = [c \in ChannelIds |-> NoChannel]
    /\ minters = {Deployer, Registry}
    /\ totalSupply = INITIAL_SUPPLY
    /\ balanceOf = [a \in Accounts \cup {Registry} |-> IF a = Deployer THEN INITIAL_SUPPLY ELSE 0]
    /\ mintLog = <<>>
    /\ InitBackend

\* the ledger's clock advances between transactions
Tick ==
    /\ now < MaxTime
    /\ now' = now + 1
    /\ UNCHANGED <<batches, batchParticipantsList, batchParticipants, channels,
                   minters, totalSupply, balanceOf, mintLog>>
    /\ UNCHANGED backendVars

\* a transaction calling registerBatchWithSupplyChain
RegisterBatch(sender, _batchId, _drugName, _expiryDate, _participants, _roles, _channelId) ==
    LET res == registerBatchWithSupplyChain(Reg, sender, now, _batchId, _drugName, _drugName,
                                            _expiryDate, _participants, _roles, _channelId)
    IN  /\ CommitReg(res)
        /\ UNCHANGED <<now, channels, minters, totalSupply, balanceOf, mintLog>>
        /\ UNCHANGED backendVars

VerifySupplyChainTransfer(sender, _batchId, _location, _additionalData, _signature) ==
    LET res == verifySupplyChainTransfer(Reg, sender, now, _batchId, _location,
                                         _additionalData, _signature)
    IN  /\ CommitReg(res)
        /\ UNCHANGED <<now, channels, minters, totalSupply, balanceOf, mintLog>>
        /\ UNCHANGED backendVars

ClaimCustomerReward(sender, _batchId) ==
    LET res == claimCustomerReward(Reg, Tok, sender, now, _batchId)
    IN  /\ CommitReg(res)
        /\ totalSupply' = IF res.err = OK THEN res.tok.totalSupply ELSE totalSupply
        /\ balanceOf' = IF res.err = OK THEN res.tok.balanceOf ELSE balanceOf
        /\ mintLog' = IF res.err = OK THEN mintLog \o res.minted ELSE mintLog
        /\ UNCHANGED <<now, channels, minters>>
        /\ UNCHANGED backendVars

RegisterFrom(expiries, lists) ==
    \E sender \in RegisterSenders, id \in BatchIds, e \in expiries, ps \in lists :
       \E rs \in RoleInputs(ps) :
          RegisterBatch(sender, id, "Aspirin", e, ps, rs, DirectChannel)

VerifyBy(callers) ==
    \E sender \in callers, id \in BatchIds, loc \in Locations, note \in Notes :
       \E sig \in SignatureInputs(sender, loc, note) :
          VerifySupplyChainTransfer(sender, id, loc, note, sig)

ClaimBy(callers) ==
    \E sender \in callers, id \in BatchIds : ClaimCustomerReward(sender, id)

Register == RegisterFrom(ExpiryInputs, ParticipantInputs)

Verify == VerifyBy(VerifyCallers)

Claim == ClaimBy(ClaimCallers)

Next ==
    \/ Tick
    \/ Register
    \/ Verify
    \/ Claim

Spec == Init /\ [][Next]_vars

-----------------------------------------------------------------------------
(* Properties of the reward claim *)

Participants(b) == Range(batchParticipantsList[b])

\* the outcome of the transaction claimCustomerReward(b) sent by c in the current state
ClaimOutcome(c, b) == claimCustomerReward(Reg, Tok, c, now, b).err

\* C1: claimReward(b, c) succeeds if and only if the batch exists, rewardClaimed
\* is false, verifiedCount equals totalParticipants, the current time is strictly
\* before the batch's expiry and c is not a participant of b; every other
\* combination fails with an error that matches a precondition that does not hold.
C1_ClaimSucceedsIffPreconditions ==
    \A c \in Accounts, b \in BatchIds :
        LET batch == batches[b]
            r == ClaimOutcome(c, b)
        IN  /\ r = OK <=> /\ batch.exists
                          /\ ~batch.rewardClaimed
                          /\ batch.verifiedCount = batch.totalParticipants
                          /\ now < batch.expiryDate
                          /\ c \notin Participants(b)
            /\ r # OK => \/ r = BatchNotFound /\ ~batch.exists
                         \/ r = AlreadyClaimed /\ batch.rewardClaimed
                         \/ r = VerificationIncomplete
                              /\ batch.verifiedCount # batch.totalParticipants
                         \/ r = Expired /\ ~(now < batch.expiryDate)
                         \/ r = ParticipantCannotClaim /\ c \in Participants(b)

\* C2: once rewardClaimed is true it stays true and the recorded claimant and
\* claim timestamp never change; every later claim on that batch, by the same
\* claimant or by anyone else, fails with AlreadyClaimed.
C2_ClaimedOnceAndForAll ==
    /\ [](\A b \in BatchIds : batches[b].rewardClaimed =>
            \A c \in Accounts : ClaimOutcome(c, b) = AlreadyClaimed)
    /\ [][\A b \in BatchIds : batches[b].rewardClaimed =>
            /\ batches'[b].rewardClaimed
            /\ batches'[b].rewardClaimedBy = batches[b].rewardClaimedBy
            /\ batches'[b].rewardClaimedAt = batches[b].rewardClaimedAt]_vars

\* a batch was claimed at an earlier time, by the second customer
C2_Witness ==
    \E b \in BatchIds :
        /\ batches[b].rewardClaimed
        /\ batches[b].rewardClaimedBy = C2
        /\ batches[b].rewardClaimedAt < now

MintsFor(b) == {i \in DOMAIN mintLog : mintLog[i].batchId = b}

ClaimedBy(a) == {b \in BatchIds : batches[b].rewardClaimed /\ batches[b].rewardClaimedBy = a}

\* C3: however the claim transactions of the customers are ordered, the token's
\* mint is invoked at most once per batch, with the fixed reward amount and to
\* the identity recorded as the batch's claimant; a claim on a batch already
\* claimed reverts and mints nothing.
C3_OneMintPerBatch ==
    /\ \A b \in BatchIds :
        /\ Cardinality(MintsFor(b)) = IF batches[b].rewardClaimed THEN 1 ELSE 0
        /\ \A i \in MintsFor(b) :
            /\ mintLog[i].amount = CUSTOMER_REWARD
            /\ mintLog[i].to = batches[b].rewardClaimedBy
        /\ batches[b].rewardClaimed =>
            \A c \in Accounts :
                LET res == claimCustomerReward(Reg, Tok, c, now, b)
                IN res.err # OK /\ res.minted = <<>>
    /\ \A a \in (Accounts \cup {Registry}) \ {Deployer} :
        balanceOf[a] = CUSTOMER_REWARD * Cardinality(ClaimedBy(a))
    /\ totalSupply = INITIAL_SUPPLY + CUSTOMER_REWARD * Len(mintLog)

\* both batches were claimed, one by each customer
C3_Witness ==
    /\ ClaimedBy(C1) # {}
    /\ ClaimedBy(C2) # {}
    /\ Len(mintLog) = 2

\* C4: no claim succeeds at or after the batch's expiry: every claimed batch has
\* a claim timestamp strictly less than its expiry.
C4_ClaimedBeforeExpiry ==
    \A b \in BatchIds :
        batches[b].rewardClaimed => batches[b].rewardClaimedAt < batches[b].expiryDate

-----------------------------------------------------------------------------
(* Properties of verification *)

HasVerified(b, p) ==
    \E i \in 1..Len(batches[b].supplyChainParticipants) :
        /\ batches[b].supplyChainParticipants[i].participantAddress = p
        /\ batches[b].supplyChainParticipants[i].hasVerified

\* the participants of b whose hasVerified turns from false to true in this step
NewlyVerified(b) ==
    {i \in 1..Len(batches[b].supplyChainParticipants) :
        /\ ~batches[b].supplyChainParticipants[i].hasVerified
        /\ batches'[b].supplyChainParticipants[i].hasVerified}

\* C5: verifiedCount never decreases and never exceeds totalParticipants; each
\* participant contributes at most one increment (the count rises by exactly the
\* number of participants whose hasVerified turns true, and hasVerified never
\* turns false again); a verify by a participant whose hasVerified is already
\* true fails and leaves the batch as it was, with AlreadyVerified when the call
\* is correctly signed and the reward is still unclaimed.
C5_VerifiedCountMonotoneBounded ==
    /\ [](\A b \in BatchIds :
            /\ batches[b].verifiedCount <= batches[b].totalParticipants
            /\ \A p \in Accounts, loc \in Locations, note \in Notes :
                 HasVerified(b, p) =>
                    \A sig \in SignatureInputs(p, loc, note) :
                        LET res == verifySupplyChainTransfer(Reg, p, now, b, loc, note, sig)
                        IN  /\ res.err # OK
                            /\ TxReg(res).batches[b].verifiedCount = batches[b].verifiedCount
                            /\ (sig = Sign(p, VerificationHash(b, p, loc, note))
                                  /\ ~batches[b].rewardClaimed) => res.err = AlreadyVerified)
    /\ [][\A b \in BatchIds : batches[b].exists =>
            /\ batches'[b].verifiedCount >= batches[b].verifiedCount
            /\ batches'[b].verifiedCount - batches[b].verifiedCount
                   = Cardinality(NewlyVerified(b))
            /\ \A i \in 1..Len(batches[b].supplyChainParticipants) :
                   batches[b].supplyChainParticipants[i].hasVerified
                       => batches'[b].supplyChainParticipants[i].hasVerified]_vars

\* one of two participants has verified at an earlier time and the other has
\* verified since: the first one's second attempt is refused
C5_Witness ==
    \E b \in BatchIds :
        /\ batches[b].totalParticipants = 2
        /\ batches[b].verifiedCount = 2
        /\ ~batches[b].rewardClaimed
        /\ batches[b].supplyChainParticipants[1].verifiedAt < now
        /\ verifySupplyChainTransfer(Reg, P1, now, b, "Mumbai", "25C",
               Sign(P1, VerificationHash(b, P1, "Mumbai", "25C"))).err = AlreadyVerified

-----------------------------------------------------------------------------
(* Properties of registration *)

\* the registration requests the properties below range over
AnyParticipants == SeqsUpTo({P1, P2, ZERO}, 3) \cup {BulkParticipants}

HasDuplicate(ps) == \E i, j \in 1..Len(ps) : i < j /\ ps[i] = ps[j]

RegisterResult(sender, id, m, e, ps, rs, ch) ==
    registerBatchWithSupplyChain(Reg, sender, now, id, m, m, e, ps, rs, ch)

\* C8: a registration with more than MAX_PARTICIPANTS participants fails
\* (TooManyParticipants) and creates no batch: no step brings a batch with more
\* than MAX_PARTICIPANTS participants into existence.
C8_TooManyParticipantsRejected ==
    [][\A b \in BatchIds : (~batches[b].exists /\ batches'[b].exists) =>
          batches'[b].totalParticipants <= MAX_PARTICIPANTS]_vars

\* C9: a registration whose participant list names the same identity twice, at
\* any two positions, fails and writes nothing: the batch id does not exist
\* afterwards and no participant record or list is visible for it.  The error is
\* DuplicateParticipant when the request is otherwise well formed (new id, expiry
\* in the future, one role per participant, no null identity).
C9_DuplicateParticipantRejected ==
    \A sender \in {Deployer, C1}, id \in BatchIds, e \in ExpiryInputs,
       ps \in {l \in AnyParticipants : HasDuplicate(l)} :
        \A rs \in RoleInputs(ps) :
            LET res == RegisterResult(sender, id, "Aspirin", e, ps, rs, DirectChannel)
            IN  /\ res.err # OK
                /\ ~batches[id].exists =>
                    /\ ~TxReg(res).batches[id].exists
                    /\ TxReg(res).list[id] = <<>>
                    /\ \A a \in Range(ps) :
                         ParticipantSlot(TxReg(res).parts, id, a) = NoParticipant
                /\ (~batches[id].exists /\ e > now /\ Len(rs) = Len(ps)
                      /\ ZERO \notin Range(ps)) => res.err = DuplicateParticipant

\* one batch is registered; a request for the other id that repeats its first
\* participant in third position is refused as a duplicate
C9_Witness ==
    /\ batches["B1"].exists
    /\ ~batches["B2"].exists
    /\ RegisterResult(Deployer, "B2", "Aspirin", MaxTime + 1, <<P1, P2, P1>>,
                      RolesFrom(3), DirectChannel).err = DuplicateParticipant

-----------------------------------------------------------------------------
(* The ledger with its state channels: registration also arrives through      *)
(* settleChannel.  The direct transactions are issued with fewer inputs here. *)

ChannelCallers == {Deployer, C1}
ChannelParticipantInputs == {<<Deployer>>, <<C1>>}
SettleSenders == {C1}

BatchData(id, e, ps) ==
    [batchId |-> id, drugName |-> "Ibuprofen", ingredients |-> "Ibuprofen",
     expiryDate |-> e, supplyChainAddresses |-> ps, supplyChainRoles |-> RolesFrom(Len(ps))]

\* two well-formed entries, one already expired, one with a repeated participant
BatchDataInputs ==
    {BatchData("B1", MaxTime + 1, <<P1>>), BatchData("B2", MaxTime + 1, <<P2, P1>>),
     BatchData("B2", 1, <<P1>>), BatchData("B1", MaxTime + 1, <<P1, P1>>)}

FinalStateInputs == SeqsUpTo(BatchDataInputs, MaxBatchData)

SettleChannel(sender, _channelId, _finalState, _signature) ==
    LET res == settleChannel(Reg, channels, sender, now, _channelId, _finalState, _signature)
    IN  /\ CommitReg(res)
        /\ channels' = TxChannels(res)
        /\ UNCHANGED <<now, minters, totalSupply, balanceOf, mintLog>>
        /\ UNCHANGED backendVars

OpenChannel(sender, _channelId, _participants) ==
    LET res == openChannel(channels, sender, now, _channelId, _participants)
    IN  /\ channels' = TxChannels(res)
        /\ UNCHANGED <<now, batches, batchParticipantsList, batchParticipants,
                       minters, totalSupply, balanceOf, mintLog>>
        /\ UNCHANGED backendVars

CloseChannel(sender, _channelId) ==
    LET res == closeChannel(channels, sender, now, _channelId)
    IN  /\ channels' = TxChannels(res)
        /\ UNCHANGED <<now, batches, batchParticipantsList, batchParticipants,
                       minters, totalSupply, balanceOf, mintLog>>
        /\ UNCHANGED backendVars

Settle ==
    \E sender \in SettleSenders, ch \in ChannelIds, fs \in FinalStateInputs,
       signer \in ChannelCallers :
       \E signedState \in {fs, <<>>} :
          SettleChannel(sender, ch, fs, Sign(signer, StateHash(signedState)))

Open ==
    \E sender \in ChannelCallers, ch \in ChannelIds, ps \in ChannelParticipantInputs :
       OpenChannel(sender, ch, ps)

Close ==
    \E sender \in ChannelCallers, ch \in ChannelIds : CloseChannel(sender, ch)

NextChannels ==
    \/ Tick
    \/ RegisterFrom({1, MaxTime + 1}, {<<P1>>, <<P2>>, <<P1, P1>>})
    \/ VerifyBy({P1})
    \/ ClaimBy({C1})
    \/ Settle
    \/ Open
    \/ Close

SpecChannels == Init /\ [][NextChannels]_vars

-----------------------------------------------------------------------------
(* Properties of the batch map *)

\* everything the registry stores about batch b
Stored(R, b) == <<R.batches[b], R.list[b], R.parts[b]>>

\* C6: a registration attempt with an id that already exists fails with
\* DuplicateBatch and leaves the stored record of the first registration
\* (manufacturer, metadata, expiry, origin channel, participants and roles,
\* verification progress, claim state) unchanged; a settlement whose list names
\* an existing id leaves that record unchanged as well.
C6_DuplicateBatchRejected ==
    \A b \in BatchIds : batches[b].exists =>
        /\ \A sender \in {Deployer, C1}, m \in Metadata, e \in ExpiryInputs,
              ps \in ParticipantInputs, ch \in ChannelIds \cup {DirectChannel} :
              \A rs \in RoleInputs(ps) :
                 LET res == RegisterResult(sender, b, m, e, ps, rs, ch)
                 IN  /\ res.err = DuplicateBatch
                     /\ Stored(TxReg(res), b) = Stored(Reg, b)
        /\ \A sender \in SettleSenders, ch \in ChannelIds, fs \in FinalStateInputs,
              signer \in ChannelCallers :
              LET res == settleChannel(Reg, channels, sender, now, ch, fs,
                                       Sign(signer, StateHash(fs)))
              IN  Stored(TxReg(res), b) = Stored(Reg, b)

\* B1 exists with its participant verified and its reward claimed, and a
\* settlement naming B1 again, together with a new B2, goes through
C6_Witness ==
    /\ batches["B1"].rewardClaimed
    /\ ~batches["B2"].exists
    /\ settleChannel(Reg, channels, C1, now, "ch1",
           <<BatchData("B1", MaxTime + 1, <<P1>>), BatchData("B2", MaxTime + 1, <<P2, P1>>)>>,
           Sign(Deployer, StateHash(
               <<BatchData("B1", MaxTime + 1, <<P1>>),
                 BatchData("B2", MaxTime + 1, <<P2, P1>>)>>))).err = OK

\* the part of a batch record that is fixed at registration
Registration(b) ==
    [batchId |-> batches[b].batchId,
     manufacturer |-> batches[b].manufacturer,
     drugName |-> batches[b].drugName,
     ingredients |-> batches[b].ingredients,
     expiryDate |-> batches[b].expiryDate,
     registeredAt |-> batches[b].registeredAt,
     channelId |-> batches[b].channelId,
     totalParticipants |-> batches[b].totalParticipants,
     list |-> batchParticipantsList[b],
     isParticipant |-> batches[b].isParticipant,
     participants |-> [i \in 1..Len(batches[b].supplyChainParticipants) |->
                          <<batches[b].supplyChainParticipants[i].participantAddress,
                            batches[b].supplyChainParticipants[i].role>>]]

\* C7: the batch map is append-only: a batch id that exists keeps existing, and
\* its id, manufacturer, metadata, expiry, registration timestamp, origin
\* channel, totalParticipants and ordered participant/role list are changed by
\* no later operation.
C7_BatchMapAppendOnly ==
    [][\A b \in BatchIds : batches[b].exists =>
          /\ batches'[b].exists
          /\ Registration(b)' = Registration(b)]_vars

\* B1 has been verified and claimed, B2 came in through a settlement that closed
\* the channel, and time has passed since B1 was registered
C7_Witness ==
    /\ batches["B1"].rewardClaimed
    /\ batches["B1"].registeredAt < now
    /\ batches["B2"].exists
    /\ batches["B2"].channelId = "ch1"
    /\ ~channels["ch1"].isOpen
    /\ channels["ch1"].nonce = 1

-----------------------------------------------------------------------------
(* Properties of the stored participant lists *)

\* a view call: the list, or the revert reason
getBatchParticipants(R, _batchId) ==
    IF ~R.batches[_batchId].exists THEN BatchNotFound ELSE R.list[_batchId]

\* C11: every stored batch has a participant list that is non-empty, has at
\* most MAX_PARTICIPANTS entries, contains no null identity and no identity
\* twice, and has exactly one role per participant (totalParticipants = number
\* of participants = number of participant records carrying a role).
C11_ParticipantListWellFormed ==
    \A b \in BatchIds : batches[b].exists =>
        LET ps == getBatchParticipants(Reg, b)
            recs == batches[b].supplyChainParticipants
        IN  /\ Len(ps) > 0
            /\ Len(ps) <= MAX_PARTICIPANTS
            /\ ZERO \notin Range(ps)
            /\ ~HasDuplicate(ps)
            /\ batches[b].totalParticipants = Len(ps)
            /\ Len(recs) = Len(ps)
            /\ \A i \in 1..Len(ps) :
                  /\ recs[i].participantAddress = ps[i]
                  /\ recs[i].role \in Range(SupplyChainRole)

\* what the registry holds for an id nothing was ever written for
Unwritten == <<NoBatch, <<>>, <<>>>>

\* C12: every rejected registration leaves the whole registry as it was, also
\* when the rejecting check fires after the batch record and earlier
\* participants of the same call were written: the storage after the call is
\* the storage before it, an id that does not exist has nothing stored for it,
\* and no batch is visible with fewer participant records than it declares.
C12_RejectedRegistrationWritesNothing ==
    /\ \A b \in BatchIds :
          /\ ~batches[b].exists => Stored(Reg, b) = Unwritten
          /\ Len(batches[b].supplyChainParticipants) = batches[b].totalParticipants
    /\ \A sender \in {Deployer, C1}, id \in BatchIds, e \in ExpiryInputs,
          ps \in AnyParticipants :
          \A rs \in RoleInputs(ps) :
             LET res == RegisterResult(sender, id, "Aspirin", e, ps, rs, DirectChannel)
             IN  res.err # OK => TxReg(res) = Reg

\* B1 is registered and verified; a request for B2 whose second participant is
\* null is rejected after B2's record and its first participant were written
C12_Witness ==
    /\ batches["B1"].verifiedCount = 1
    /\ ~batches["B2"].exists
    /\ LET res == RegisterResult(Deployer, "B2", "Aspirin", MaxTime + 1, <<P1, ZERO>>,
                                 RolesFrom(2), DirectChannel)
       IN  /\ res.err = InvalidParticipant
           /\ res.reg.batches["B2"].exists
           /\ Len(res.reg.batches["B2"].supplyChainParticipants) = 1

\* getParticipantDetails: the mapping's record of a participant
getParticipantDetails(R, _batchId, _participant) ==
    LET participant == ParticipantSlot(R.parts, _batchId, _participant)
    IN  IF ~R.batches[_batchId].exists THEN BatchNotFound
        ELSE <<participant.role, participant.hasVerified, participant.verifiedAt,
               participant.location, participant.additionalData>>

\* the record a participant has right after registration
Unverified(a, role) ==
    [participantAddress |-> a, role |-> role, hasVerified |-> FALSE,
     verifiedAt |-> 0, location |-> "", additionalData |-> ""]

\* C13: immediately after a successful registration with n participants the
\* batch exists with totalParticipants = n, verifiedCount = 0, rewardClaimed
\* false and no claimant; every participant record has hasVerified false and the
\* role given at the same index of the roles list; the participant list is
\* returned in registration order.
C13_RegistrationResult ==
    /\ [](\A sender \in {Deployer, C1}, id \in BatchIds, e \in ExpiryInputs,
             ps \in AnyParticipants :
             \A rs \in RoleInputs(ps) :
                LET res == RegisterResult(sender, id, "Aspirin", e, ps, rs, DirectChannel)
                    batch == res.reg.batches[id]
                IN  res.err = OK =>
                      /\ batch.exists
                      /\ batch.totalParticipants = Len(ps)
                      /\ batch.verifiedCount = 0
                      /\ ~batch.rewardClaimed
                      /\ batch.rewardClaimedBy = ZERO
                      /\ batch.rewardClaimedAt = 0
                      /\ batch.supplyChainParticipants =
                             [i \in 1..Len(ps) |-> Unverified(ps[i], rs[i])]
                      /\ \A i \in 1..Len(ps) :
                             getParticipantDetails(res.reg, id, ps[i]) = <<rs[i], FALSE, 0, "", "">>
                      /\ getBatchParticipants(res.reg, id) = ps)
    /\ [][\A b \in BatchIds : (~batches[b].exists /\ batches'[b].exists) =>
             /\ batches'[b].totalParticipants = Len(batchParticipantsList'[b])
             /\ batches'[b].verifiedCount = 0
             /\ ~batches'[b].rewardClaimed
             /\ batches'[b].rewardClaimedBy = ZERO
             /\ batches'[b].supplyChainParticipants =
                    [i \in 1..Len(batchParticipantsList'[b]) |->
                        Unverified(batchParticipantsList'[b][i], RolesFrom(i)[i])]]_vars

\* B2 has just been registered with two participants, after B1 was verified
C13_Witness ==
    /\ batches["B1"].verifiedCount = 1
    /\ batches["B2"].exists
    /\ batches["B2"].registeredAt = now
    /\ batches["B2"].totalParticipants = 2
    /\ batches["B2"].verifiedCount = 0
    /\ batches["B2"].supplyChainParticipants[2].role = SUPPLIER

-----------------------------------------------------------------------------
(* Properties of verifySupplyChainTransfer *)

\* the signature a caller makes over its own request
OwnSignature(sender, _batchId, _location, _additionalData) ==
    Sign(sender, VerificationHash(_batchId, sender, _location, _additionalData))

\* locations and notes a message may have been signed over; "Mumbai2" with "5C"
\* packs to the same bytes as "Mumbai" with "25C"
SignedLocations == {"Mumbai", "Mumbai2"}
SignedNotes == {"25C", "5C"}

\* C14: a verify call for an existing batch by an identity that is not in that
\* batch's participant list fails with NotAuthorizedParticipant, whatever
\* signature it carries, and changes nothing.
C14_NonParticipantRejected ==
    \A b \in BatchIds, a \in Accounts, loc \in Locations, note \in Notes :
        (batches[b].exists /\ a \notin Participants(b)) =>
            \A signer \in Accounts, signedId \in BatchIds, signedFor \in {a, P1} :
                LET sig == Sign(signer, VerificationHash(signedId, signedFor, loc, note))
                    res == verifySupplyChainTransfer(Reg, a, now, b, loc, note, sig)
                IN  /\ res.err = NotAuthorizedParticipant
                    /\ res.reg = Reg
                    /\ TxReg(res) = Reg

\* P1 has verified its batch; P2, who is not listed for it, is refused with
\* its own correctly made signature
C14_Witness ==
    \E b \in BatchIds :
        /\ batchParticipantsList[b] = <<P1>>
        /\ batches[b].verifiedCount = 1
        /\ verifySupplyChainTransfer(Reg, P2, now, b, "Mumbai", "25C",
               OwnSignature(P2, b, "Mumbai", "25C")).err = NotAuthorizedParticipant

\* C16: a verification is recorded for participant p of batch b only if the
\* signature recovers to p over the message bound to (b, p, ...): a call in the
\* name of p with a signature produced by another identity, or with p's
\* signature over another batch id, fails and leaves the batch as it was.
C16_SignatureBindsBatchAndSigner ==
    \A b \in BatchIds, p \in Accounts, loc \in Locations, note \in Notes,
       signer \in Accounts, signedId \in BatchIds,
       signedLoc \in SignedLocations, signedNote \in SignedNotes :
        (signer # p \/ signedId # b) =>
            LET sig == Sign(signer, VerificationHash(signedId, p, signedLoc, signedNote))
                res == verifySupplyChainTransfer(Reg, p, now, b, loc, note, sig)
            IN  /\ res.err # OK
                /\ res.reg = Reg
                /\ TxReg(res).batches[b] = batches[b]
                /\ (batches[b].exists /\ p \in Participants(b) /\ ~batches[b].rewardClaimed)
                      => res.err = InvalidSignature

\* P1 has verified B1; for B2, where it is listed and has not verified, its
\* signature over B1 is refused, and so is the deployer's signature over B2
C16_Witness ==
    /\ HasVerified("B1", P1)
    /\ P1 \in Participants("B2")
    /\ ~HasVerified("B2", P1)
    /\ verifySupplyChainTransfer(Reg, P1, now, "B2", "Mumbai", "25C",
           OwnSignature(P1, "B1", "Mumbai", "25C")).err = InvalidSignature
    /\ verifySupplyChainTransfer(Reg, P1, now, "B2", "Mumbai", "25C",
           Sign(Deployer, VerificationHash("B2", P1, "Mumbai", "25C"))).err = InvalidSignature

\* the position of participant a in the list of batch b (0 if not listed)
IndexOf(b, a) ==
    IF a \in Participants(b)
    THEN CHOOSE i \in 1..Len(batchParticipantsList[b]) : batchParticipantsList[b][i] = a
    ELSE 0

\* C17: a successful verify by participant p of batch b sets p's hasVerified,
\* records its timestamp, location and note, and raises verifiedCount by exactly
\* one; the records of b's other participants, b's claim state and registration,
\* every other batch, every channel and the token are unchanged.
C17_VerifyEffect ==
    /\ [](\A b \in BatchIds, p \in Accounts, loc \in SignedLocations, note \in SignedNotes :
            LET res == verifySupplyChainTransfer(Reg, p, now, b, loc, note,
                                                 OwnSignature(p, b, loc, note))
                i == IndexOf(b, p)
                old == batches[b]
                new == res.reg.batches[b]
            IN  res.err = OK =>
                  /\ i > 0
                  /\ ~old.supplyChainParticipants[i].hasVerified
                  /\ new.supplyChainParticipants[i] =
                         [old.supplyChainParticipants[i] EXCEPT
                             !.hasVerified = TRUE, !.verifiedAt = now,
                             !.location = loc, !.additionalData = note]
                  /\ new.verifiedCount = old.verifiedCount + 1
                  /\ \A j \in 1..Len(old.supplyChainParticipants) :
                         j # i => new.supplyChainParticipants[j] = old.supplyChainParticipants[j]
                  /\ [new EXCEPT !.supplyChainParticipants = old.supplyChainParticipants,
                                  !.verifiedCount = old.verifiedCount] = old
                  /\ res.reg.list = batchParticipantsList
                  /\ res.reg.parts[b][p] = new.supplyChainParticipants[i]
                  /\ \A q \in DOMAIN batchParticipants[b] :
                         q # p => res.reg.parts[b][q] = batchParticipants[b][q]
                  /\ \A c \in BatchIds : c # b => Stored(res.reg, c) = Stored(Reg, c))
    /\ [][(\E b \in BatchIds : NewlyVerified(b) # {}) =>
             /\ Cardinality({b \in BatchIds : NewlyVerified(b) # {}}) = 1
             /\ \A b \in BatchIds : Cardinality(NewlyVerified(b)) <= 1
             /\ UNCHANGED <<now, channels, minters, totalSupply, balanceOf, mintLog,
                            batchParticipantsList>>]_vars

\* of two participants the second has verified, at a later time than the
\* registration, and the first has not
C17_Witness ==
    \E b \in BatchIds :
        /\ batchParticipantsList[b] = <<P1, P2>>
        /\ batches[b].verifiedCount = 1
        /\ ~batches[b].supplyChainParticipants[1].hasVerified
        /\ batches[b].supplyChainParticipants[2].hasVerified
        /\ batches[b].supplyChainParticipants[2].verifiedAt > batches[b].registeredAt
        /\ batches[b].supplyChainParticipants[2].location = "Mumbai"
        /\ batchParticipants[b][P2].additionalData = "25C"

\* the verification state of batch b with the timestamps left out
WithoutTimes(R, b) ==
    <<R.batches[b].verifiedCount,
      [i \in 1..Len(R.batches[b].supplyChainParticipants) |->
          [R.batches[b].supplyChainParticipants[i] EXCEPT !.verifiedAt = 0]],
      [a \in DOMAIN R.parts[b] |-> [R.parts[b][a] EXCEPT !.verifiedAt = 0]]>>

\* p verifies b at time t1, then q at time t2
VerifyBoth(b, p, t1, q, t2) ==
    LET first == verifySupplyChainTransfer(Reg, p, t1, b, "Mumbai", "25C",
                                           OwnSignature(p, b, "Mumbai", "25C"))
        second == verifySupplyChainTransfer(first.reg, q, t2, b, "Mumbai", "25C",
                                            OwnSignature(q, b, "Mumbai", "25C"))
    IN  [err |-> IF first.err # OK THEN first.err ELSE second.err, reg |-> second.reg]

\* C18: verification is order-independent: a participant that has not verified
\* can verify whatever the others have done; two participants' verifications
\* succeed in either order and end in the same state up to timestamps; once
\* every participant has verified, verifiedCount = n and the batch is ready.
C18_VerificationOrderIndependent ==
    \A b \in BatchIds : (batches[b].exists /\ ~batches[b].rewardClaimed) =>
        /\ \A p \in Participants(b) : ~HasVerified(b, p) =>
              verifySupplyChainTransfer(Reg, p, now, b, "Mumbai", "25C",
                  OwnSignature(p, b, "Mumbai", "25C")).err = OK
        /\ \A p, q \in Participants(b) \cap Accounts :
              (p # q /\ ~HasVerified(b, p) /\ ~HasVerified(b, q)) =>
                 \A t1 \in now..MaxTime : \A t2 \in t1..MaxTime :
                    /\ VerifyBoth(b, p, t1, q, t2).err = OK
                    /\ VerifyBoth(b, q, t1, p, t2).err = OK
                    /\ WithoutTimes(VerifyBoth(b, p, t1, q, t2).reg, b)
                          = WithoutTimes(VerifyBoth(b, q, t1, p, t2).reg, b)
        /\ (\A p \in Participants(b) : HasVerified(b, p)) =>
              /\ batches[b].verifiedCount = Len(batchParticipantsList[b])
              /\ isBatchReadyForCustomer(Reg, b)

\* the second participant verified first, the first one later, and the batch
\* is ready for the customer
C18_Witness ==
    \E b \in BatchIds :
        /\ batchParticipantsList[b] = <<P1, P2>>
        /\ batches[b].supplyChainParticipants[2].hasVerified
        /\ batches[b].supplyChainParticipants[1].hasVerified
        /\ batches[b].supplyChainParticipants[2].verifiedAt
              < batches[b].supplyChainParticipants[1].verifiedAt
        /\ isBatchReadyForCustomer(Reg, b)

-----------------------------------------------------------------------------
(* Properties of the claimed batch and of settlement, on the ledger with its *)
(* channels                                                                  *)

\* C15: a claimed batch is terminal: once rewardClaimed is true, every verify
\* call by a listed participant fails with BatchCompleted, and no operation
\* changes that batch's verifiedCount, participant records, claimant or claim
\* timestamp again.
C15_ClaimedIsTerminal ==
    /\ [](\A b \in BatchIds : batches[b].rewardClaimed =>
            \A p \in Participants(b), loc \in Locations, note \in Notes :
               \A sig \in SignatureInputs(p, loc, note) :
                  LET res == verifySupplyChainTransfer(Reg, p, now, b, loc, note, sig)
                  IN  res.err = BatchCompleted /\ res.reg = Reg)
    /\ [][\A b \in BatchIds : batches[b].rewardClaimed =>
             /\ batches'[b].rewardClaimed
             /\ batches'[b].verifiedCount = batches[b].verifiedCount
             /\ batches'[b].supplyChainParticipants = batches[b].supplyChainParticipants
             /\ batchParticipants'[b] = batchParticipants[b]
             /\ batches'[b].rewardClaimedBy = batches[b].rewardClaimedBy
             /\ batches'[b].rewardClaimedAt = batches[b].rewardClaimedAt]_vars

\* B1 was claimed at an earlier time, the other batch has arrived since, and
\* the participant's correctly signed verify of B1 is refused as completed
C15_Witness ==
    /\ batches["B1"].rewardClaimed
    /\ batches["B1"].rewardClaimedAt < now
    /\ batches["B2"].registeredAt = now
    /\ verifySupplyChainTransfer(Reg, P1, now, "B1", "Mumbai", "25C",
           OwnSignature(P1, "B1", "Mumbai", "25C")).err = BatchCompleted

\* the ids named by a BatchData list
ListedIds(fs) == {fs[i].batchId : i \in 1..Len(fs)}

\* the first entry of the list that names id b
FirstEntry(fs, b) == fs[CHOOSE i \in 1..Len(fs) :
                           fs[i].batchId = b /\ \A j \in 1..(i - 1) : fs[j].batchId # b]

\* the channel's last transaction was a successful settlement
Settled(ch) == ~channels[ch].isOpen /\ channels[ch].nonce > 0

\* every settleChannel on channel ch fails with ChannelNotOpen and writes nothing
SettleRefused(ch) ==
    \A sender \in SettleSenders, fs \in FinalStateInputs, signer \in ChannelCallers :
        LET res == settleChannel(Reg, channels, sender, now, ch, fs,
                                 Sign(signer, StateHash(fs)))
        IN  res.err = ChannelNotOpen /\ res.reg = Reg

\* C19: a successful settleChannel registers exactly those batch ids of the
\* list that were absent from the registry before the call (each once, from its
\* first entry, also when an id occurs several times), leaves every batch that
\* was present untouched, and closes the channel; any later settleChannel on
\* that channel id, with the same or another list, fails with ChannelNotOpen and
\* registers nothing (it does so right after the settlement and still does after
\* every further step).
C19_SettlementRegistersAbsentOnce ==
    /\ [](\A sender \in SettleSenders, ch \in ChannelIds, fs \in FinalStateInputs,
             signer \in ChannelCallers :
             LET res == settleChannel(Reg, channels, sender, now, ch, fs,
                                      Sign(signer, StateHash(fs)))
             IN  res.err = OK =>
                   /\ \A b \in BatchIds :
                         /\ res.reg.batches[b].exists
                               <=> (batches[b].exists \/ b \in ListedIds(fs))
                         /\ batches[b].exists => Stored(res.reg, b) = Stored(Reg, b)
                         /\ (~batches[b].exists /\ b \in ListedIds(fs)) =>
                               /\ res.reg.list[b] = FirstEntry(fs, b).supplyChainAddresses
                               /\ res.reg.batches[b].expiryDate = FirstEntry(fs, b).expiryDate
                               /\ res.reg.batches[b].channelId = ch
                               /\ res.reg.batches[b].registeredAt = now
                               /\ Len(res.reg.batches[b].supplyChainParticipants)
                                     = Len(FirstEntry(fs, b).supplyChainAddresses)
                   /\ ~res.chans[ch].isOpen
                   /\ res.chans[ch].closedAt = now
                   /\ res.chans[ch].nonce = channels[ch].nonce + 1)
    /\ [](\A ch \in ChannelIds : Settled(ch) => SettleRefused(ch))
    /\ [][\A ch \in ChannelIds : Settled(ch) => SettleRefused(ch)']_vars

\* C20: on an open channel, settleChannel with a signature that does not
\* recover, over the content hash of the submitted list, to an identity that is
\* both a declared participant of the channel and the holder of the
\* manufacturer role fails with InvalidSigner or SignerNotManufacturer before
\* any registration: no batch is created, the channel stays open and its nonce
\* and close timestamp are unchanged.
C20_BadSettlementSignatureRejected ==
    \A ch \in ChannelIds : channels[ch].isOpen =>
        \A sender \in SettleSenders \cup {Deployer}, fs \in FinalStateInputs,
           signer \in Accounts :
           \A signedState \in SeqsUpTo(BatchDataInputs, 1) \cup {fs} :
              LET res == settleChannel(Reg, channels, sender, now, ch, fs,
                                       Sign(signer, StateHash(signedState)))
                  authorized == /\ signedState = fs
                                /\ signer \in Range(channels[ch].participants)
                                /\ signer = Deployer
              IN  ~authorized =>
                    /\ res.err \in {InvalidSigner, SignerNotManufacturer}
                    /\ res.reg = Reg
                    /\ res.chans = channels
                    /\ TxReg(res) = Reg
                    /\ TxChannels(res) = channels

\* the channel was opened earlier for a participant without the manufacturer
\* role: a settlement signed by that participant and one signed by the
\* manufacturer, who is not a participant, are both refused
C20_Witness ==
    /\ channels["ch1"].isOpen
    /\ channels["ch1"].participants = <<C1>>
    /\ channels["ch1"].openedAt < now
    /\ batches["B1"].exists
    /\ ~batches["B2"].exists
    /\ settleChannel(Reg, channels, C1, now, "ch1",
           <<BatchData("B2", MaxTime + 1, <<P2, P1>>)>>,
           Sign(C1, StateHash(<<BatchData("B2", MaxTime + 1, <<P2, P1>>)>>))).err
         = SignerNotManufacturer
    /\ settleChannel(Reg, channels, C1, now, "ch1",
           <<BatchData("B2", MaxTime + 1, <<P2, P1>>)>>,
           Sign(Deployer, StateHash(<<BatchData("B2", MaxTime + 1, <<P2, P1>>)>>))).err
         = InvalidSigner

-----------------------------------------------------------------------------
(* Properties of settlement and of the ledger's channel records *)

\* a BatchData entry that registerBatchWithSupplyChain accepts at time t for a new id
WellFormed(data, t) ==
    /\ data.expiryDate > t
    /\ Len(data.supplyChainAddresses) > 0
    /\ Len(data.supplyChainAddresses) = Len(data.supplyChainRoles)
    /\ ~HasDuplicate(data.supplyChainAddresses)
    /\ ZERO \notin Range(data.supplyChainAddresses)

\* C21: settlement is best-effort per item: on an open channel, with the
\* manufacturer's signature, a list with a malformed entry (expiry not in the
\* future, empty or duplicate participants, role count mismatch) still settles:
\* only the malformed entries are not registered, the well-formed entries not
\* yet present are registered, and the channel is closed.
C21_SettlementBestEffort ==
    \A ch \in ChannelIds :
        (channels[ch].isOpen /\ Deployer \in Range(channels[ch].participants)) =>
            \A sender \in SettleSenders, fs \in FinalStateInputs :
                LET res == settleChannel(Reg, channels, sender, now, ch, fs,
                                         Sign(Deployer, StateHash(fs)))
                IN  /\ res.err = OK
                    /\ ~TxChannels(res)[ch].isOpen
                    /\ \A b \in BatchIds :
                          TxReg(res).batches[b].exists <=>
                             \/ batches[b].exists
                             \/ \E i \in 1..Len(fs) :
                                   fs[i].batchId = b /\ WellFormed(fs[i], now)

\* the channel has been closed, by closeChannel or by settleChannel
Closed(ch) == ~channels[ch].isOpen /\ channels[ch].closedAt > 0

\* C22: a channel id is never reopened: once a channel has been closed by
\* settleChannel or closeChannel, no call makes it open again and its record
\* (participants, nonce, open and close timestamps) is not replaced.
C22_ChannelNeverReopened ==
    [][\A ch \in ChannelIds : Closed(ch) => channels'[ch] = channels[ch]]_vars

\* C27: only manufacturers register batches: the manufacturer stored in every
\* batch record holds the manufacturer role.
C27_StoredManufacturerHoldsRole ==
    \A b \in BatchIds :
        batches[b].exists => hasRole(MANUFACTURER_ROLE, batches[b].manufacturer)

\* C30: a channel's nonce never decreases under openChannel, closeChannel and
\* settleChannel, and a successful settleChannel increases it by exactly one
\* while setting the close timestamp and closing the channel.
C30_NonceMonotonic ==
    /\ [](\A sender \in SettleSenders, ch \in ChannelIds, fs \in FinalStateInputs,
             signer \in ChannelCallers :
             LET res == settleChannel(Reg, channels, sender, now, ch, fs,
                                      Sign(signer, StateHash(fs)))
             IN  res.err = OK =>
                   /\ res.chans[ch].nonce = channels[ch].nonce + 1
                   /\ res.chans[ch].closedAt = now
                   /\ ~res.chans[ch].isOpen)
    /\ [][\A ch \in ChannelIds : channels'[ch].nonce >= channels[ch].nonce]_vars

\* C29: in claimCustomerReward the writes precede the call of the token: when
\* mint is invoked, rewardClaimed is already true and the claimant and the time
\* are recorded, so a claimCustomerReward entered again from inside mint, for
\* the same batch or another one, by any caller, mints nothing for that batch.
C29_WritesPrecedeMint ==
    \A c \in ClaimCallers, b \in BatchIds :
        LET res == claimCustomerReward(Reg, Tok, c, now, b)
            at == res.atMint
        IN  ClaimGuard(batches[b], c) = OK =>
              /\ at.batches[b].rewardClaimed
              /\ at.batches[b].rewardClaimedBy = c
              /\ at.batches[b].rewardClaimedAt = now
              /\ \A c2 \in ClaimCallers, b2 \in BatchIds, tok \in {Tok, res.tok} :
                    LET inner == claimCustomerReward(at, tok, c2, now, b2)
                    IN  /\ b2 = b => inner.err = AlreadyClaimed
                        /\ \A i \in DOMAIN inner.minted : inner.minted[i].batchId # b

\* one reward has been claimed and another batch is ready to be claimed
C29_Witness ==
    \E b, b2 \in BatchIds :
        /\ b # b2
        /\ batches[b].rewardClaimed
        /\ Len(mintLog) > 0
        /\ \E c \in ClaimCallers : ClaimGuard(batches[b2], c) = OK

\* the channel ids a settlement is retried on
RetryChannelIds == ChannelIds \cup {"ch2"}

\* C25: settlement is safely retriable: whatever the registry holds, processing
\* a batchDataList leaves every batch already registered exactly as stored
\* (data, verification progress, claim state), and once a list has been
\* processed, processing the same list again, at any later time, by any sender,
\* for the same channel or another one, succeeds and changes nothing: each id
\* stays registered once.
C25_SettlementRetriable ==
    \A sender \in SettleSenders, fs \in FinalStateInputs, ch \in RetryChannelIds :
        LET first == SettleBatches(Reg, sender, now, ch, fs, 1)
        IN  /\ \A b \in BatchIds :
                  batches[b].exists => Stored(first.reg, b) = Stored(Reg, b)
            /\ first.err = OK =>
                  \A sender2 \in ChannelCallers, ch2 \in RetryChannelIds, t \in now..(MaxTime + 1) :
                      LET again == SettleBatches(first.reg, sender2, t, ch2, fs, 1)
                      IN  again.err = OK /\ again.reg = first.reg

\* a batch that came in through ch1 has verification progress, and ch1 is open
\* again for a settlement signed by the manufacturer
C25_Witness ==
    \E b \in BatchIds :
        /\ batches[b].exists
        /\ batches[b].channelId = "ch1"
        /\ batches[b].verifiedCount > 0
        /\ channels["ch1"].isOpen
        /\ Deployer \in Range(channels["ch1"].participants)

-----------------------------------------------------------------------------
(* The check made for a verifier before a verification is submitted *)

everyAddressParticipates(R, _batchId, _address) == TRUE

\* the view isParticipant of the registry
isParticipant(R, _batchId, _address) == _address \in R.batches[_batchId].isParticipant

\* the two view calls made before a verification is submitted, as the pair
\* (canVerify, alreadyVerified): refused as not authorized, refused as already
\* verified, or let through
canVerifyBatch(R, batchId, verifier) ==
    IF ~isParticipant(R, batchId, verifier) THEN <<FALSE, FALSE>>
    ELSE LET details == getParticipantDetails(R, batchId, verifier)
         IN  IF details = BatchNotFound THEN <<FALSE, FALSE>>
             ELSE IF details[2] THEN <<FALSE, TRUE>>
             ELSE <<TRUE, FALSE>>

-----------------------------------------------------------------------------
(* The backend: handlers of POST /api/register, POST /api/channels/:id/settle *)
(* and of the ClearNode message channel_closed.  A handler runs until its      *)
(* next await; between two awaits nothing else runs.                           *)

\* Date.now() moves on
ClockAdvances ==
    /\ dateNow < MaxClock
    /\ dateNow' = dateNow + 1
    /\ UNCHANGED <<managerChannels, requests, settlers, acks, nextIntent>>
    /\ UNCHANGED ledgerVars

\* the handler calls addBatchToChannel: it is answered with success, or it is
\* suspended inside the settlement the append started, or that settlement threw
AppendAndAnswer(backend, h, channelId, intent) ==
    LET res == addBatchToChannelOf(backend, managerChannels, channelId, intent)
    IN  /\ managerChannels' = res.chans
        /\ IF res.suspended
           THEN /\ requests' = [requests EXCEPT ![h] = [pc |-> "settling", intent |-> intent,
                                                        channelId |-> channelId]]
                /\ acks' = acks
           ELSE IF res.threw
           THEN /\ requests' = [requests EXCEPT ![h] = IdleRequest]
                /\ acks' = acks
           ELSE /\ requests' = [requests EXCEPT ![h] = IdleRequest]
                /\ acks' = acks \cup {[intent |-> intent, channelId |-> channelId]}

\* POST /api/register/:chainKey, from the return of the QR code on (nothing is
\* read or written before): an open channel of the chain is found and the batch
\* is appended to it
AppendToOpenChannel(backend, h, chainKey, role, limit) ==
    /\ requests[h].pc = "idle"
    /\ nextIntent <= limit
    /\ FirstOpenChannel(managerChannels, chainKey) # 0
    /\ AppendAndAnswer(backend, h, FirstOpenChannel(managerChannels, chainKey),
                       registrationData(nextIntent, chainKey, role))
    /\ nextIntent' = nextIntent + 1
    /\ UNCHANGED <<dateNow, settlers>>
    /\ UNCHANGED ledgerVars

\* POST /api/register/:chainKey, from the return of the QR code on: there is no
\* open channel of the chain, one is created and the handler awaits it; a
\* settlement in flight on the id that is set again keeps the replaced object
CreateChannel(h, chainKey, role, limit) ==
    /\ requests[h].pc = "idle"
    /\ nextIntent <= limit
    /\ FirstOpenChannel(managerChannels, chainKey) = 0
    /\ managerChannels' = createChannel(managerChannels, dateNow, chainKey)
    /\ requests' = [h2 \in Handlers |->
                      IF h2 = h
                      THEN [pc |-> "created", intent |-> registrationData(nextIntent, chainKey, role),
                            channelId |-> dateNow]
                      ELSE IF requests[h2].pc = "settling" /\ requests[h2].channelId = dateNow
                      THEN [requests[h2] EXCEPT !.channelId = Detached]
                      ELSE requests[h2]]
    /\ settlers' = [kind \in SettlerKinds |->
                      IF settlers[kind] = dateNow THEN Detached ELSE settlers[kind]]
    /\ nextIntent' = nextIntent + 1
    /\ UNCHANGED <<dateNow, acks>>
    /\ UNCHANGED ledgerVars

\* after createChannel: the batch is appended to the id that was returned
AppendToCreatedChannel(backend, h) ==
    /\ requests[h].pc = "created"
    /\ AppendAndAnswer(backend, h, requests[h].channelId, requests[h].intent)
    /\ UNCHANGED <<dateNow, settlers, nextIntent>>
    /\ UNCHANGED ledgerVars

\* the settlement started by an append resumes and throws: the request is
\* answered with an error
SettlementInAppendResumes(h) ==
    /\ requests[h].pc = "settling"
    /\ managerChannels' = settlementResumed(managerChannels, requests[h].channelId)
    /\ requests' = [requests EXCEPT ![h] = IdleRequest]
    /\ UNCHANGED <<dateNow, settlers, acks, nextIntent>>
    /\ UNCHANGED ledgerVars

\* POST /api/channels/:channelId/settle, or the message channel_closed, for a
\* channel the manager holds
StartSettlement(kind, channelId) ==
    LET res == closeAndSettleChannel(managerChannels, channelId)
    IN  /\ settlers[kind] = 0
        /\ managerChannels[channelId].status # "none"
        /\ managerChannels' = res.chans
        /\ settlers' = [settlers EXCEPT ![kind] = IF res.suspended THEN channelId ELSE 0]
        /\ UNCHANGED <<dateNow, requests, acks, nextIntent>>
        /\ UNCHANGED ledgerVars

\* that settlement resumes and throws
SettlementResumes(kind) ==
    /\ settlers[kind] # 0
    /\ managerChannels' = settlementResumed(managerChannels, settlers[kind])
    /\ settlers' = [settlers EXCEPT ![kind] = 0]
    /\ UNCHANGED <<dateNow, requests, acks, nextIntent>>
    /\ UNCHANGED ledgerVars

\* the role names requests carry; the second is none the backend knows
RoleNameInputs == {"TRANSPORTER", "PHARMACIST"}

AppendOpen == \E h \in Handlers, chainKey \in ChainKeys, role \in RoleNameInputs : AppendToOpenChannel("part_000", h, chainKey, role, MaxIntents)

Create == \E h \in Handlers, chainKey \in ChainKeys, role \in RoleNameInputs : CreateChannel(h, chainKey, role, MaxIntents)

AppendCreated == \E h \in Handlers : AppendToCreatedChannel("part_000", h)

SettleRequest == \E channelId \in ManagerChannelIds : StartSettlement("request", channelId)

ChannelClosed == \E channelId \in ManagerChannelIds : StartSettlement("message", channelId)

Resume == \E kind \in SettlerKinds : SettlementResumes(kind)

\* the backend with its two chains, for a few registrations
NextBackend ==
    \/ ClockAdvances
    \/ AppendOpen
    \/ Create
    \/ AppendCreated
    \/ SettleRequest
    \/ ChannelClosed
    \/ Resume

SpecBackend == Init /\ [][NextBackend]_vars

\* a continuation that has been scheduled runs: the promise of signMessage settles
SpecBackendFair ==
    /\ SpecBackend
    /\ \A kind \in SettlerKinds : WF_vars(SettlementResumes(kind))

AppendOpenMany == \E h \in Handlers : AppendToOpenChannel("part_000", h, "localhost", "TRANSPORTER", MaxBuffered)

CreateMany == \E h \in Handlers : CreateChannel(h, "localhost", "TRANSPORTER", MaxBuffered)

ResumeInAppend == \E h \in Handlers : SettlementInAppendResumes(h)

\* the backend with one chain, for enough registrations to fill a channel
NextThreshold ==
    \/ ClockAdvances
    \/ AppendOpenMany
    \/ CreateMany
    \/ AppendCreated
    \/ ResumeInAppend
    \/ SettleRequest
    \/ Resume

SpecThreshold == Init /\ [][NextThreshold]_vars

AppendOpenProduction == \E h \in Handlers : AppendToOpenChannel("production", h, "localhost", "TRANSPORTER", MaxBuffered)

CreateProduction == \E h \in Handlers : CreateChannel(h, "localhost", "TRANSPORTER", MaxBuffered)

AppendCreatedProduction == \E h \in Handlers : AppendToCreatedChannel("production", h)

\* multichain-backend-production.js: settlement is started by the threshold only
NextProduction ==
    \/ ClockAdvances
    \/ AppendOpenProduction
    \/ CreateProduction
    \/ AppendCreatedProduction

SpecProduction == Init /\ [][NextProduction]_vars

-----------------------------------------------------------------------------
(* Properties of the backend's channels *)

\* the changes of status the channel state machine allows; a settlement that
\* fails before its first await passes through settling within one step
AllowedStatusChanges ==
    {<<"none", "open">>, <<"open", "settling">>, <<"open", "failed">>,
     <<"settling", "settled">>, <<"settling", "failed">>}

\* C23: in the backend, the status of a channel only moves from open to
\* settling and from settling to settled or failed, whatever appends, threshold
\* triggers, settle requests and channel_closed messages arrive: a settled or
\* failed channel never changes status again and no channel returns to open.
C23_StatusOnlyMovesForward ==
    [][\A id \in ManagerChannelIds :
          managerChannels'[id].status # managerChannels[id].status =>
              <<managerChannels[id].status, managerChannels'[id].status>>
                  \in AllowedStatusChanges]_vars

\* C24: a channel that reaches 10 buffered batches goes to settlement within
\* the append that adds the tenth batch, without a settlement being requested;
\* so no open channel ever holds 10 or more buffered batches.
C24_ThresholdSettles ==
    /\ [](\A id \in ManagerChannelIds :
             managerChannels[id].status = "open" =>
                 Len(managerChannels[id].batches) < SETTLE_THRESHOLD)
    /\ [][\A id \in ManagerChannelIds :
             (/\ Len(managerChannels[id].batches) < SETTLE_THRESHOLD
              /\ Len(managerChannels'[id].batches) >= SETTLE_THRESHOLD) =>
                 /\ managerChannels'[id].status = "settling"
                 /\ settlers' = settlers]_vars

\* a channel holds ten batches and is settling, started by the handler that
\* appended the tenth, while no settlement was requested from outside
C24_Witness ==
    \E id \in ManagerChannelIds, h \in Handlers :
        /\ Len(managerChannels[id].batches) = SETTLE_THRESHOLD
        /\ managerChannels[id].status = "settling"
        /\ requests[h].pc = "settling"
        /\ requests[h].channelId = id
        /\ \A kind \in SettlerKinds : settlers[kind] = 0

\* where a batch intent sits in the buffered lists
Occurrences(intent) ==
    {p \in ManagerChannelIds \X (1..(MaxBuffered + 1)) :
        /\ p[2] <= Len(managerChannels[p[1]].batches)
        /\ managerChannels[p[1]].batches[p[2]] = intent}

\* C26: however the registration handlers interleave at their awaits, no append
\* is lost: every batch intent answered as added is exactly once in exactly one
\* channel's buffered list, and the nonce of every channel is the number of
\* appends made to it.
C26_NoLostAppend ==
    /\ \A a \in acks : Cardinality(Occurrences(a.intent)) = 1
    /\ \A id \in ManagerChannelIds :
          managerChannels[id].nonce = Len(managerChannels[id].batches)

-----------------------------------------------------------------------------
(* Properties of the claim and of the stored participant state *)

\* token states in which the registry's mint fails: the registry is not a
\* minter (never added, or removed by the owner), or the owner has minted up to
\* the maximum supply
FailingTokens ==
    {[Tok EXCEPT !.minters = @ \ {Registry}],
     [Tok EXCEPT !.totalSupply = MAX_SUPPLY,
                 !.balanceOf[Deployer] = @ + (MAX_SUPPLY - totalSupply)]}

\* C35: claimCustomerReward is atomic with the mint: when the token's mint
\* fails (the registry is not a minter, or the maximum supply would be
\* exceeded), the claim fails, nothing is minted, rewardClaimed, claimant and
\* claim time of the batch are as before, and the batch can still be claimed.
C35_ClaimAtomicWithMint ==
    \A c \in ClaimCallers, b \in BatchIds, tok \in FailingTokens :
        LET res == claimCustomerReward(Reg, tok, c, now, b)
        IN  ClaimGuard(batches[b], c) = OK =>
              /\ res.err \in {NotAMinter, MaxSupplyExceeded}
              /\ res.minted = <<>>
              /\ res.tok = tok
              /\ Stored(TxReg(res), b) = Stored(Reg, b)
              /\ claimCustomerReward(TxReg(res), Tok, c, now, b).err = OK

\* a batch is ready to be claimed, and the claim fails in the token for each of
\* the two reasons
C35_Witness ==
    \E c \in ClaimCallers, b \in BatchIds :
        /\ ClaimGuard(batches[b], c) = OK
        /\ {claimCustomerReward(Reg, tok, c, now, b).err : tok \in FailingTokens}
               = {NotAMinter, MaxSupplyExceeded}

\* the participant records of batch b whose hasVerified is true
VerifiedSlots(b) ==
    {i \in 1..Len(batches[b].supplyChainParticipants) :
        batches[b].supplyChainParticipants[i].hasVerified}

\* C37: the two stores of participant state agree: for every batch,
\* verifiedCount is the number of participants whose hasVerified is true, the
\* participant array and the per-address mapping hold the same record (role,
\* hasVerified, verifiedAt, location, additional data) for every participant,
\* and isParticipant is true exactly for the addresses of the participant list.
C37_ParticipantStoresAgree ==
    \A b \in BatchIds :
        /\ batches[b].verifiedCount = Cardinality(VerifiedSlots(b))
        /\ \A i \in 1..Len(batches[b].supplyChainParticipants) :
              LET p == batches[b].supplyChainParticipants[i]
              IN  /\ p.participantAddress \in DOMAIN batchParticipants[b]
                  /\ batchParticipants[b][p.participantAddress] = p
        /\ \A a \in Accounts \cup Range(BulkParticipants) \cup {ZERO, Registry} :
              /\ isParticipant(Reg, b, a) <=> a \in Range(batchParticipantsList[b])
              /\ a \in DOMAIN batchParticipants[b] => isParticipant(Reg, b, a)

\* a batch of two participants of which the second in the list has verified
C37_Witness ==
    \E b \in BatchIds :
        /\ Len(batches[b].supplyChainParticipants) >= 2
        /\ batches[b].supplyChainParticipants[2].hasVerified
        /\ ~batches[b].supplyChainParticipants[1].hasVerified

\* C38: a batch with rewardClaimed true has verifiedCount = totalParticipants
\* and a recorded claimant that is not null and not one of its participants; a
\* batch with rewardClaimed false has no recorded claimant and claim time 0.
C38_ClaimStateWellFormed ==
    \A b \in BatchIds :
        /\ batches[b].rewardClaimed =>
              /\ batches[b].verifiedCount = batches[b].totalParticipants
              /\ batches[b].rewardClaimedBy # ZERO
              /\ batches[b].rewardClaimedBy \notin Participants(b)
        /\ ~batches[b].rewardClaimed =>
              /\ batches[b].rewardClaimedBy = ZERO
              /\ batches[b].rewardClaimedAt = 0

\* one batch has been claimed, another exists with a verification still missing
C38_Witness ==
    \E b, b2 \in BatchIds :
        /\ batches[b].rewardClaimed
        /\ batches[b2].exists
        /\ ~batches[b2].rewardClaimed
        /\ batches[b2].verifiedCount < batches[b2].totalParticipants

-----------------------------------------------------------------------------
(* What the backend hands to the ledger when it settles a channel *)

\* the account of PRIVATE_KEY, which deployed the contracts
Wallet == Deployer

\* the array built from the buffered batches for registry.settleChannel
batchesData(chs, channelId) ==
    [i \in 1..Len(chs[channelId].batches) |->
        [batchId |-> chs[channelId].batches[i].batchId,
         drugName |-> "Ibuprofen", ingredients |-> "Ibuprofen",
         expiryDate |-> MaxTime + 1,
         supplyChainAddresses |-> <<P1>>,
         supplyChainRoles |-> [j \in 1..Len(chs[channelId].batches[i].roles) |->
                                  SupplyChainRole[chs[channelId].batches[i].roles[j] + 1]]]]

\* wallet.signMessage over solidityKeccak256(['bytes32', 'uint256'], [channelId, nonce])
settlementSignature(chs, channelId) ==
    Sign(Wallet, <<"solidityKeccak256", <<channelId, chs[channelId].nonce>>>>)

\* the ledger's channel mapping, read at an id of the backend: the backend
\* never calls openChannel, so the id reads as the default record
LedgerChannels(channelId) == [c \in {channelId} |-> NoChannel]

\* a settlement of the channel is between its await and its resumption
InFlight(id) ==
    \/ \E kind \in SettlerKinds : settlers[kind] = id
    \/ \E h \in Handlers : requests[h].pc = "settling" /\ requests[h].channelId = id

-----------------------------------------------------------------------------
(* Properties of the backend's buffer and of its settlements *)

C32_SettledMeansOnLedger ==
    \A id \in ManagerChannelIds :
        managerChannels[id].status = "settled" =>
            \A i \in 1..Len(managerChannels[id].batches) :
                batches[managerChannels[id].batches[i].batchId].exists

\* C33: what the backend submits satisfies what the ledger checks: for a
\* channel whose settlement is in flight, the same channel id is open on the
\* ledger, the backend's signature is a signature over the hash of the submitted
\* list that the ledger recomputes, and settleChannel accepts the call.
C33_SubmissionSatisfiesLedger ==
    \A id \in ManagerChannelIds :
        InFlight(id) =>
            LET fs == batchesData(managerChannels, id)
                sig == settlementSignature(managerChannels, id)
            IN  /\ LedgerChannels(id)[id].isOpen
                /\ sig = Sign(Wallet, StateHash(fs))
                /\ settleChannel(Reg, LedgerChannels(id), Wallet, now, id, fs, sig).err = OK

\* C34: when every settlement call that was started completes, no channel
\* stays settling forever, and a settlement that completes marks its channel
\* settled or failed; a settlement for a chain without registry contract fails
\* before it is suspended, so its channel is failed at once.
C34_SettlingEnds ==
    /\ \A id \in ManagerChannelIds :
           (managerChannels[id].status = "settling") ~> (managerChannels[id].status # "settling")
    /\ [](\A id \in ManagerChannelIds : managerChannels[id].status = "settling" => InFlight(id))
    /\ [][\A kind \in SettlerKinds :
             (settlers[kind] \in ManagerChannelIds /\ settlers'[kind] = 0) =>
                 managerChannels'[settlers[kind]].status \in {"settled", "failed"}]_vars

\* a channel of the chain with a registry contract has failed after its
\* settlement resumed, and one of the chain without has failed at once
C34_Witness ==
    \E id, id2 \in ManagerChannelIds :
        /\ managerChannels[id].chainKey = "localhost"
        /\ managerChannels[id].status = "failed"
        /\ managerChannels[id2].chainKey = "polygon"
        /\ managerChannels[id2].status = "failed"
        /\ \A kind \in SettlerKinds : settlers[kind] = 0

\* C36: a role name the backend does not know is rejected: no request whose
\* participant carries a role outside TRANSPORTER, SUPPLIER, DISTRIBUTOR,
\* WHOLESALER, RETAILER leads to a buffered batch in which that participant has
\* the role NONE; so no buffered batch holds the role NONE.
C36_UnknownRoleRejected ==
    \A id \in ManagerChannelIds :
        \A i \in 1..Len(managerChannels[id].batches) :
            \A j \in 1..Len(managerChannels[id].batches[i].roles) :
                SupplyChainRole[managerChannels[id].batches[i].roles[j] + 1] # NONE

\* C39: channel ids are unique in the backend: creating a channel never
\* replaces an existing channel or its buffered batches, also within one clock
\* reading, and every buffered batch is in a channel of the chain its
\* registration request named.
C39_ChannelIdsUnique ==
    /\ [](\A id \in ManagerChannelIds :
             \A i \in 1..Len(managerChannels[id].batches) :
                 managerChannels[id].batches[i].chainKey = managerChannels[id].chainKey)
    /\ [][\A id \in ManagerChannelIds :
             managerChannels[id].status # "none" =>
                 /\ managerChannels'[id].chainKey = managerChannels[id].chainKey
                 /\ Len(managerChannels'[id].batches) >= Len(managerChannels[id].batches)
                 /\ SubSeq(managerChannels'[id].batches, 1, Len(managerChannels[id].batches))
                        = managerChannels[id].batches]_vars

====
